---- MODULE Spec2Model ----
(***************************************************************************)
(* Gomoku move-selection engine: the heuristic classifier                  *)
(* (check_block_win), the playout simulators (random_simulation,           *)
(* rules_simulation), the GTP move evaluator (GtpConnection.genmove_cmd)   *)
(* and the scored-evaluation player (Gomoku3).                             *)
(*                                                                         *)
(* The board (simple_board / board_util) is not among the sources; it is   *)
(* modelled from the Board Oracle contract as a single line of `size`      *)
(* points on which WinLen equal stones in a row win.                       *)
(***************************************************************************)
EXTENDS Integers, Sequences, FiniteSets, TLC

----------------------------------------------------------------------------
(* Bounds and constants *)

\* largest board of the GTP session and of the playout calls
MaxSize == 6
\* board size of the direct classifier calls
ClassifySize == 7
\* genmove is requested only with at most this many empty points
MaxCandidates == 3
\* playouts start with at most this many empty points
MaxEmpty == 4
\* the playouts run to their end start with at most this many empty points
MaxPlies == 2
\* stones in a row that win (board oracle)
WinLen == 5
\* playouts per candidate: range(0,10)
NumPlayouts == 10

EMPTY == "EMPTY"
BLACK == "BLACK"
WHITE == "WHITE"
\* Python's None
NoneVal == "None"
\* the PASS sentinel of board_util (None); no point has this index, and a
\* move variable holding None equals it
PASS == 0

Colors == {BLACK, WHITE}

----------------------------------------------------------------------------
(* Board oracle *)

opponent(color) == IF color = BLACK THEN WHITE ELSE BLACK

EmptyBoard(n) ==
  [size |-> n, cells |-> [p \in 1..n |-> EMPTY], current_player |-> BLACK]

AllBoards(n) ==
  {[size |-> n, cells |-> c, current_player |-> cp] :
     c \in [1..n -> {EMPTY, BLACK, WHITE}], cp \in Colors}

copy(b) == b

get_empty_points(b) == {p \in 1..b.size : b.cells[p] = EMPTY}

RECURSIVE SortedSeq(_)
SortedSeq(S) ==
  IF S = {} THEN <<>>
  ELSE LET m == CHOOSE x \in S : \A y \in S : x <= y
       IN <<m>> \o SortedSeq(S \ {m})

\* all empty points, in ascending point order
generate_legal_moves_gomoku(b) == SortedSeq(get_empty_points(b))

\* the moves generate_random_move_gomoku may return
generate_random_move_gomoku(b) ==
  IF get_empty_points(b) = {} THEN {PASS} ELSE get_empty_points(b)

is_legal_gomoku(b, move, color) == move \in get_empty_points(b)

\* the board after play_move_gomoku(move, color); unchanged when occupied
play_move_gomoku(b, move, color) ==
  IF move \in get_empty_points(b)
  THEN [b EXCEPT !.cells[move] = color, !.current_player = opponent(color)]
  ELSE b

HasFive(b, color) ==
  \E i \in 1..(b.size - WinLen + 1) :
     \A k \in 0..(WinLen - 1) : b.cells[i + k] = color

check_game_end_gomoku(b) ==
  IF HasFive(b, WHITE) THEN [game_end |-> TRUE, winner |-> WHITE]
  ELSE IF HasFive(b, BLACK) THEN [game_end |-> TRUE, winner |-> BLACK]
  ELSE [game_end |-> FALSE, winner |-> NoneVal]

\* open fours of color: four stones in a row with both ends empty
OpenFours(b, color) ==
  {i \in 2..(b.size - WinLen + 1) :
     /\ b.cells[i - 1] = EMPTY
     /\ \A k \in 0..(WinLen - 2) : b.cells[i + k] = color
     /\ b.cells[i + WinLen - 1] = EMPTY}

check_open_four_gomoku(b, color) == Cardinality(OpenFours(b, color))

\* points where the opponent of color would complete a win
check_block_win_gomoku(b, color) ==
  Cardinality({p \in get_empty_points(b) :
     HasFive(play_move_gomoku(b, p, opponent(color)), opponent(color))})

\* points where the opponent of color would complete a new open four
check_block_open_four_gomoku(b, color) ==
  Cardinality({p \in get_empty_points(b) :
     check_open_four_gomoku(play_move_gomoku(b, p, opponent(color)), opponent(color))
       > check_open_four_gomoku(b, opponent(color))})

----------------------------------------------------------------------------
(* Heuristic classifier: check_block_win *)

Last(s) == s[Len(s)]
Front(s) == SubSeq(s, 1, Len(s) - 1)
Range(s) == {s[i] : i \in 1..Len(s)}

\* save(board): push a copy on STACK
save(stack, b) == Append(stack, copy(b))

\* locals before the loop
ScanInit(b, color, stack) ==
  [board |-> b, stack |-> stack,
   win_moves |-> <<>>, block_win_moves |-> <<>>,
   open_four_moves |-> <<>>, block_open_four_moves |-> <<>>,
   found_win |-> FALSE, found_block_win |-> FALSE,
   found_open_four |-> FALSE, found_block_open_four |-> FALSE,
   original_block_situations |-> check_block_win_gomoku(copy(b), color),
   original_open_situations |-> check_open_four_gomoku(copy(b), color),
   original_block_open_situations |-> check_block_open_four_gomoku(copy(b), color)]

\* mutant: a winning move is collected only while found_win is still false
ScanMove_FirstWinOnly(st, move, color) ==
  LET stack1 == save(st.stack, st.board)
      board_copy == play_move_gomoku(copy(st.board), move, color)
      win == check_game_end_gomoku(board_copy).game_end /\ ~st.found_win
      found_win == st.found_win \/ win
      bw == /\ ~found_win
            /\ check_block_win_gomoku(board_copy, color) < st.original_block_situations
      found_block_win == st.found_block_win \/ bw
      of == /\ ~found_win /\ ~found_block_win
            /\ check_open_four_gomoku(board_copy, color) > st.original_open_situations
      found_open_four == st.found_open_four \/ of
      bof == /\ ~found_win /\ ~found_block_win /\ ~found_open_four
             /\ check_block_open_four_gomoku(board_copy, color)
                  < st.original_block_open_situations
  IN [st EXCEPT
        !.win_moves = IF win THEN Append(@, move) ELSE @,
        !.found_win = found_win,
        !.block_win_moves = IF bw THEN Append(@, move) ELSE @,
        !.found_block_win = found_block_win,
        !.open_four_moves = IF of THEN Append(@, move) ELSE @,
        !.found_open_four = found_open_four,
        !.block_open_four_moves = IF bof THEN Append(@, move) ELSE @,
        !.found_block_open_four = @ \/ bof,
        !.board = Last(stack1),
        !.stack = Front(stack1)]

\* mutant: every candidate is tested for every category, whatever the flags
ScanMove_Ungated(st, move, color) ==
  LET stack1 == save(st.stack, st.board)
      board_copy == play_move_gomoku(copy(st.board), move, color)
      win == check_game_end_gomoku(board_copy).game_end
      bw == check_block_win_gomoku(board_copy, color) < st.original_block_situations
      of == check_open_four_gomoku(board_copy, color) > st.original_open_situations
      bof == check_block_open_four_gomoku(board_copy, color)
               < st.original_block_open_situations
  IN [st EXCEPT
        !.win_moves = IF win THEN Append(@, move) ELSE @,
        !.found_win = @ \/ win,
        !.block_win_moves = IF bw THEN Append(@, move) ELSE @,
        !.found_block_win = @ \/ bw,
        !.open_four_moves = IF of THEN Append(@, move) ELSE @,
        !.found_open_four = @ \/ of,
        !.block_open_four_moves = IF bof THEN Append(@, move) ELSE @,
        !.found_block_open_four = @ \/ bof,
        !.board = Last(stack1),
        !.stack = Front(stack1)]

\* one iteration of the loop over the candidates
ScanMove(st, move, color) ==
  LET stack1 == save(st.stack, st.board)
      board_copy == play_move_gomoku(copy(st.board), move, color)
      win == check_game_end_gomoku(board_copy).game_end
      found_win == st.found_win \/ win
      bw == /\ ~found_win
            /\ check_block_win_gomoku(board_copy, color) < st.original_block_situations
      found_block_win == st.found_block_win \/ bw
      of == /\ ~found_win /\ ~found_block_win
            /\ check_open_four_gomoku(board_copy, color) > st.original_open_situations
      found_open_four == st.found_open_four \/ of
      bof == /\ ~found_win /\ ~found_block_win /\ ~found_open_four
             /\ check_block_open_four_gomoku(board_copy, color)
                  < st.original_block_open_situations
  IN [st EXCEPT
        !.win_moves = IF win THEN Append(@, move) ELSE @,
        !.found_win = found_win,
        !.block_win_moves = IF bw THEN Append(@, move) ELSE @,
        !.found_block_win = found_block_win,
        !.open_four_moves = IF of THEN Append(@, move) ELSE @,
        !.found_open_four = found_open_four,
        !.block_open_four_moves = IF bof THEN Append(@, move) ELSE @,
        !.found_block_open_four = @ \/ bof,
        \* board = undo()
        !.board = Last(stack1),
        !.stack = Front(stack1)]

RECURSIVE ScanMoves(_, _, _, _)
ScanMoves(st, moves, i, color) ==
  IF i > Len(moves) THEN st
  ELSE ScanMoves(ScanMove(st, moves[i], color), moves, i + 1, color)

\* mutant: the lowest-priority non-empty list is returned
SelectCategory_Reversed(st, moves) ==
  IF st.found_block_open_four
  THEN [returnstring |-> "BlockOpenFour", moves |-> st.block_open_four_moves]
  ELSE IF st.found_open_four
  THEN [returnstring |-> "OpenFour", moves |-> st.open_four_moves]
  ELSE IF st.found_block_win
  THEN [returnstring |-> "BlockWin", moves |-> st.block_win_moves]
  ELSE IF st.found_win
  THEN [returnstring |-> "Win", moves |-> st.win_moves]
  ELSE [returnstring |-> "Random", moves |-> moves]

\* the category returned after the scan
SelectCategory(st, moves) ==
  IF st.found_win
  THEN [returnstring |-> "Win", moves |-> st.win_moves]
  ELSE IF st.found_block_win
  THEN [returnstring |-> "BlockWin", moves |-> st.block_win_moves]
  ELSE IF st.found_open_four
  THEN [returnstring |-> "OpenFour", moves |-> st.open_four_moves]
  ELSE IF st.found_block_open_four
  THEN [returnstring |-> "BlockOpenFour", moves |-> st.block_open_four_moves]
  ELSE [returnstring |-> "Random", moves |-> moves]

\* check_block_win(board, color): the returned pair, with the locals and the
\* STACK at the return
check_block_win(b, colorArg, stack) ==
  LET color == IF colorArg = NoneVal THEN b.current_player ELSE colorArg
      moves == generate_legal_moves_gomoku(b)
      st == ScanMoves(ScanInit(b, color, stack), moves, 1, color)
      sel == SelectCategory(st, moves)
  IN [returnstring |-> sel.returnstring, moves |-> sel.moves,
      color |-> color, candidates |-> moves, locals |-> st]

\* the positions of MaxSize points with a color to classify for are numbered
\* from 1: a digit of base 3 for each point, then the side to move, then the
\* color
Digit(v) == IF v = EMPTY THEN 0 ELSE IF v = BLACK THEN 1 ELSE 2

RECURSIVE CellsNumber(_, _)
CellsNumber(cells, n) ==
  IF n = 0 THEN 0 ELSE 3 * CellsNumber(cells, n - 1) + Digit(cells[n])

PositionNumber(b, color) ==
  1 + 4 * CellsNumber(b.cells, b.size)
    + 2 * (IF b.current_player = BLACK THEN 0 ELSE 1)
    + (IF color = BLACK THEN 0 ELSE 1)

NumberedPosition(i) ==
  [board |->
     [size |-> MaxSize,
      cells |-> [p \in 1..MaxSize |->
                  LET d == (((i - 1) \div 4) \div (3 ^ (MaxSize - p))) % 3
                  IN IF d = 0 THEN EMPTY ELSE IF d = 1 THEN BLACK ELSE WHITE],
      current_player |-> IF ((i - 1) \div 2) % 2 = 0 THEN BLACK ELSE WHITE],
   color |-> IF (i - 1) % 2 = 0 THEN BLACK ELSE WHITE]

\* check_block_win(board, color) on the empty STACK, for every numbered
\* position, computed once
ClassifierResults ==
  [i \in 1..(4 * 3 ^ MaxSize) |->
     check_block_win(NumberedPosition(i).board, NumberedPosition(i).color, <<>>)]
    \o <<>>

\* check_block_win(b, color) called with STACK = stack: the scan appends to
\* the STACK it is given and removes only what it appended, so what it
\* leaves is stack followed by what it leaves of the empty STACK
check_block_win_on(b, color, stack) ==
  [ClassifierResults[PositionNumber(b, color)] EXCEPT !.locals.stack = stack \o @]

----------------------------------------------------------------------------
(* Playouts, as the set of values one call can return *)

\* the base case of random_simulation: game_end and winner == original_color
RandomBaseCase(b, original_color) ==
  /\ check_game_end_gomoku(b).game_end
  /\ check_game_end_gomoku(b).winner = original_color

\* random_simulation(board, original_color, color): the statuses the random
\* draws can lead to
RECURSIVE random_simulation(_, _, _)
random_simulation(b, original_color, color) ==
  IF RandomBaseCase(b, original_color) THEN {"True"}
  ELSE UNION {IF move = PASS THEN {"False"}
              ELSE random_simulation(copy(play_move_gomoku(b, move, color)),
                                     original_color, opponent(color)) :
              move \in generate_random_move_gomoku(b)}

\* mutant: a terminal position is scored as a draw
RulesBaseValue_Half(winner, original_color) == "0.5"

\* the value of the base case of rules_simulation
RulesBaseValue(winner, original_color) ==
  IF winner = original_color THEN "1" ELSE "0"

\* rules_simulation(board, original_color, color): the value returned and the
\* number of check_block_win calls made
RECURSIVE rules_simulation(_, _, _)
rules_simulation(b, original_color, color) ==
  LET ge == check_game_end_gomoku(b)
  IN IF ge.game_end
     THEN [status |-> RulesBaseValue(ge.winner, original_color),
           classified |-> 0]
     ELSE LET moves == check_block_win(copy(b), color, <<>>).moves
          IN IF Len(moves) = 0 THEN [status |-> "0.5", classified |-> 1]
             ELSE IF Last(moves) = PASS THEN [status |-> "0.5", classified |-> 1]
             ELSE LET rec == rules_simulation(
                               play_move_gomoku(b, Last(moves), color),
                               original_color, opponent(color))
                  IN [status |-> rec.status, classified |-> 1 + rec.classified]

----------------------------------------------------------------------------
(* State *)

VARIABLES
  board,      \* GtpConnection.board, or the position a direct call is given
  POLICY,     \* the global POLICY
  STACK,      \* the global STACK
  pc,         \* where the running command or call stands
  cls,        \* the return of the last check_block_win call
  gm,         \* the locals of genmove_cmd, with the history the claims need
  response,   \* the last response written
  call,       \* the arguments of a direct playout call
  frames,     \* the activations of the playout function, innermost last
  ret,        \* the value the last finished activation returned
  state,      \* the position Gomoku3.simulate is given
  g3          \* the locals of Gomoku3.simulate and how the call ended

vars == <<board, POLICY, STACK, pc, cls, gm, response, call, frames, ret, state, g3>>
gtpvars == <<board, POLICY, pc, cls, gm, response>>
simvars == <<call, frames, ret>>
g3vars == <<state, g3>>

NoCls == [returnstring |-> NoneVal]
NoBoard == EmptyBoard(0)
NoResponse == [cmd |-> "", text |-> "", moves |-> <<>>]
NoCall == [fn |-> NoneVal, board |-> NoBoard, original_color |-> NoneVal,
           color |-> NoneVal]
NoState == [cells |-> <<>>, toPlay |-> BLACK, moves |-> <<>>]
NoG3 == [at |-> "idle", before |-> NoState, move |-> PASS, moveNr |-> 0,
         stats |-> <<>>, exc |-> NoneVal]
NoSim == call = NoCall /\ frames = <<>> /\ ret = NoneVal
NoScored == state = NoState /\ g3 = NoG3

GmIdle ==
  [color |-> NoneVal, moves |-> <<>>, i |-> 0,
   best_move |-> PASS, best_ratio |-> 0,
   \* history: the position at the call, the position handed to the playouts
   \* of the last candidate, the playouts and classifications run, the
   \* highest ratio seen, the first candidate that had it, and whether a
   \* later candidate had it too
   root |-> NoBoard, handed |-> NoBoard, playouts |-> 0, classified |-> 0,
   maxr |-> -1, first |-> 0, tied |-> FALSE]

----------------------------------------------------------------------------
(* Direct calls of check_block_win(board, color) *)

InitClassify ==
  /\ board \in AllBoards(ClassifySize)
  /\ POLICY = "random"
  /\ STACK = <<>>
  /\ pc = "call"
  /\ cls = NoCls
  /\ gm = GmIdle
  /\ response = NoResponse
  /\ NoSim /\ NoScored

CallCheckBlockWin(colorArg) ==
  /\ pc = "call"
  /\ LET r == check_block_win(board, colorArg, STACK)
     IN /\ cls' = r
        /\ STACK' = r.locals.stack
  /\ pc' = "returned"
  /\ UNCHANGED <<board, POLICY, gm, response, simvars, g3vars>>

NextClassify == \E colorArg \in Colors \cup {NoneVal} : CallCheckBlockWin(colorArg)

SpecClassify == InitClassify /\ [][NextClassify]_vars

----------------------------------------------------------------------------
(* The GTP session *)

Init ==
  /\ board = EmptyBoard(MaxSize)
  /\ POLICY = "random"
  /\ STACK = <<>>
  /\ pc = "idle"
  /\ cls = NoCls
  /\ gm = GmIdle
  /\ response = NoResponse
  /\ NoSim /\ NoScored

Respond(cmd, text, moves) ==
  response' = [cmd |-> cmd, text |-> text, moves |-> moves]

\* play_cmd with a point
PlayCmd(color, move) ==
  /\ pc = "idle"
  /\ IF move \in get_empty_points(board)
     THEN /\ board' = play_move_gomoku(board, move, color)
          /\ Respond("play", "", <<>>)
     ELSE /\ board' = board
          /\ Respond("play", "illegal move: occupied", <<>>)
  /\ gm' = GmIdle /\ cls' = NoCls
  /\ UNCHANGED <<POLICY, STACK, pc, simvars, g3vars>>

\* play_cmd with 'pass'
PlayPassCmd(color) ==
  /\ pc = "idle"
  /\ board' = [board EXCEPT !.current_player = opponent(color)]
  /\ Respond("play", "", <<>>)
  /\ gm' = GmIdle /\ cls' = NoCls
  /\ UNCHANGED <<POLICY, STACK, pc, simvars, g3vars>>

clear_board_cmd ==
  /\ pc = "idle"
  /\ board' = EmptyBoard(board.size)
  /\ Respond("clear_board", "", <<>>)
  /\ gm' = GmIdle /\ cls' = NoCls
  /\ UNCHANGED <<POLICY, STACK, pc, simvars, g3vars>>

policy_cmd(arg) ==
  /\ pc = "idle"
  /\ IF arg # "random" /\ arg # "rule_based"
     THEN /\ POLICY' = POLICY
          /\ Respond("policy", "unknown policy", <<>>)
     ELSE /\ POLICY' = arg
          /\ Respond("policy", "policy set to", <<>>)
  /\ gm' = GmIdle /\ cls' = NoCls
  /\ UNCHANGED <<board, STACK, pc, simvars, g3vars>>

policy_moves ==
  /\ pc = "idle"
  /\ LET r == check_block_win(board, NoneVal, STACK)
         move_strings == SortedSeq(Range(r.moves))
     IN /\ cls' = r
        /\ STACK' = r.locals.stack
        /\ IF r.returnstring = "Random" /\ move_strings = <<>>
           THEN Respond("policy_moves", "", <<>>)
           ELSE Respond("policy_moves", r.returnstring, move_strings)
  /\ gm' = GmIdle
  /\ UNCHANGED <<board, POLICY, pc, simvars, g3vars>>

gogui_rules_final_result_cmd ==
  /\ pc = "idle"
  /\ LET ge == check_game_end_gomoku(board)
         board_full == get_empty_points(board) = {}
     IN IF board_full /\ ~ge.game_end
        THEN Respond("final_result", "draw", <<>>)
        ELSE IF ge.game_end
        THEN Respond("final_result",
                     IF ge.winner = BLACK THEN "black" ELSE "white", <<>>)
        ELSE Respond("final_result", "unknown", <<>>)
  /\ gm' = GmIdle /\ cls' = NoCls
  /\ UNCHANGED <<board, POLICY, STACK, pc, simvars, g3vars>>

(* genmove_cmd *)

\* the numbers of wins NumPlayouts playouts can count, given the statuses one
\* playout can return
WinCounts(results) ==
  {w \in 0..NumPlayouts :
     /\ w > 0 => "True" \in results
     /\ w < NumPlayouts => "False" \in results}

\* the value a rule-guided playout adds to wins, in halves
Halves(status) == IF status = "1" THEN 2 ELSE IF status = "0.5" THEN 1 ELSE 0

\* wins after the NumPlayouts playouts of one candidate, in halves
RECURSIVE SumOutcomes(_, _)
SumOutcomes(status, n) ==
  IF n = 0 THEN 0 ELSE SumOutcomes(status, n - 1) + Halves(status)

\* mutant: a candidate with an equal ratio replaces the best one
UpdateBest_GreaterOrEqual(g, move, ratio) ==
  LET best0 == IF g.best_move = PASS THEN move ELSE g.best_move
  IN IF ratio >= g.best_ratio
     THEN [g EXCEPT !.best_move = move, !.best_ratio = ratio]
     ELSE [g EXCEPT !.best_move = best0]

\* the default best move and the comparison that ends a candidate's
\* iteration; ratios are kept in twentieths (wins/10 = 2*wins/20)
UpdateBest(g, move, ratio) ==
  LET best0 == IF g.best_move = PASS THEN move ELSE g.best_move
  IN IF ratio > g.best_ratio
     THEN [g EXCEPT !.best_move = move, !.best_ratio = ratio]
     ELSE [g EXCEPT !.best_move = best0]

\* the history kept beside the locals
Record(g, ratio, given, playouts, classified) ==
  [g EXCEPT !.i = @ + 1,
            !.handed = given,
            !.playouts = @ + playouts,
            !.classified = @ + classified,
            !.maxr = IF ratio > @ THEN ratio ELSE @,
            !.first = IF ratio > g.maxr THEN g.i ELSE @,
            !.tied = IF ratio > g.maxr THEN FALSE ELSE (@ \/ ratio = g.maxr)]

\* the position genmove_cmd hands to each random playout of a candidate
RandomPlayoutBoard(b, move, color) == copy(b)

\* the position genmove_cmd hands to each rule-guided playout of a candidate
RulePlayoutBoard(b, move, color) == copy(play_move_gomoku(copy(b), move, color))

\* mutant: the terminal check is skipped
GameEndAtGenmove_Skipped(b) == [game_end |-> FALSE, winner |-> NoneVal]

\* the terminal check at the top of genmove_cmd
GameEndAtGenmove(b) == check_game_end_gomoku(b)

\* the board is terminal: answer pass or resign
GenmoveTerminal(color) ==
  /\ pc = "idle"
  /\ Cardinality(get_empty_points(board)) <= MaxCandidates
  /\ GameEndAtGenmove(board).game_end
  /\ IF GameEndAtGenmove(board).winner = color
     THEN Respond("genmove", "pass", <<>>)
     ELSE Respond("genmove", "resign", <<>>)
  /\ gm' = [GmIdle EXCEPT !.color = color, !.root = board]
  /\ cls' = NoCls
  /\ UNCHANGED <<board, POLICY, STACK, pc, simvars, g3vars>>

\* otherwise the loop over the legal moves starts
GenmoveBegin(color) ==
  /\ pc = "idle"
  /\ Cardinality(get_empty_points(board)) <= MaxCandidates
  /\ ~GameEndAtGenmove(board).game_end
  /\ gm' = [GmIdle EXCEPT !.color = color, !.root = board, !.i = 1,
                          !.moves = generate_legal_moves_gomoku(board)]
  /\ pc' = "genmove"
  /\ cls' = NoCls
  /\ UNCHANGED <<board, POLICY, STACK, response, simvars, g3vars>>

\* one candidate under the random policy
GenmoveRandomCandidate ==
  /\ pc = "genmove" /\ POLICY = "random" /\ gm.i <= Len(gm.moves)
  /\ LET move == gm.moves[gm.i]
         given == RandomPlayoutBoard(board, move, gm.color)
     IN \E wins \in WinCounts(random_simulation(given, gm.color, gm.color)) :
          gm' = Record(UpdateBest(gm, move, 2 * wins), 2 * wins, given,
                       NumPlayouts, 0)
  /\ UNCHANGED <<board, POLICY, STACK, pc, cls, response, simvars, g3vars>>

\* one candidate under the rule-based policy
GenmoveRuleCandidate ==
  /\ pc = "genmove" /\ POLICY = "rule_based" /\ gm.i <= Len(gm.moves)
  /\ LET move == gm.moves[gm.i]
         given == RulePlayoutBoard(board, move, gm.color)
         out == rules_simulation(given, gm.color, opponent(gm.color))
         wins == SumOutcomes(out.status, NumPlayouts)
     IN gm' = Record(UpdateBest(gm, move, wins), wins, given,
                     NumPlayouts, NumPlayouts * out.classified)
  /\ UNCHANGED <<board, POLICY, STACK, pc, cls, response, simvars, g3vars>>

\* after the loop: answer with the best move and play it
GenmoveFinish ==
  /\ pc = "genmove" /\ gm.i > Len(gm.moves)
  /\ IF gm.best_move = PASS
     THEN /\ Respond("genmove", "pass", <<>>)
          /\ board' = board
     ELSE IF is_legal_gomoku(board, gm.best_move, gm.color)
     THEN /\ board' = play_move_gomoku(board, gm.best_move, gm.color)
          /\ Respond("genmove", "move", <<gm.best_move>>)
     ELSE /\ Respond("genmove", "illegal move", <<gm.best_move>>)
          /\ board' = board
  /\ pc' = "idle"
  /\ UNCHANGED <<POLICY, STACK, cls, gm, simvars, g3vars>>

\* Gomoku3.genmove: Gomoku3 has no check_game_end_gomoku, so the assert
\* statement raises AttributeError while its condition is evaluated
Gomoku3_genmove ==
  /\ pc = "idle"
  /\ Respond("Gomoku3.genmove", "AttributeError", <<>>)
  /\ gm' = [GmIdle EXCEPT !.root = board]
  /\ cls' = NoCls
  /\ UNCHANGED <<board, POLICY, STACK, pc, simvars, g3vars>>

Next ==
  \/ \E color \in Colors, move \in 1..MaxSize : PlayCmd(color, move)
  \/ \E color \in Colors : PlayPassCmd(color)
  \/ clear_board_cmd
  \/ \E arg \in {"random", "rule_based", "other"} : policy_cmd(arg)
  \/ policy_moves
  \/ gogui_rules_final_result_cmd
  \/ \E color \in Colors : GenmoveTerminal(color)
  \/ \E color \in Colors : GenmoveBegin(color)
  \/ GenmoveRandomCandidate
  \/ GenmoveRuleCandidate
  \/ GenmoveFinish
  \/ Gomoku3_genmove

Spec == Init /\ [][Next]_vars

----------------------------------------------------------------------------
(* genmove on any position play_cmd can set up: play_cmd accepts either
   color on any empty point, so every assignment of stones is reachable *)

GenmoveRoots ==
  {b \in AllBoards(MaxSize) : Cardinality(get_empty_points(b)) <= MaxCandidates}

InitGenmove ==
  /\ board \in GenmoveRoots
  /\ POLICY \in {"random", "rule_based"}
  /\ STACK = <<>>
  /\ pc = "idle"
  /\ cls = NoCls
  /\ gm = GmIdle
  /\ response = NoResponse
  /\ NoSim /\ NoScored

NextGenmove ==
  \/ \E color \in Colors : GenmoveTerminal(color)
  \/ \E color \in Colors : GenmoveBegin(color)
  \/ GenmoveRandomCandidate
  \/ GenmoveRuleCandidate
  \/ GenmoveFinish
  \/ Gomoku3_genmove

SpecGenmove == InitGenmove /\ [][NextGenmove]_vars

----------------------------------------------------------------------------
(* Direct calls of random_simulation and rules_simulation, one activation
   step at a time *)

PlayoutRoots ==
  {b \in AllBoards(MaxSize) : Cardinality(get_empty_points(b)) <= MaxEmpty}

\* entry keeps the position the activation was called on
Frame(b, original_color, color) ==
  [board |-> b, original_color |-> original_color, color |-> color,
   at |-> "entry", entry |-> b]

Top == frames[Len(frames)]

InitPlayout(fn) ==
  /\ board = EmptyBoard(MaxSize)
  /\ POLICY = "random"
  /\ STACK = <<>>
  /\ pc = "call"
  /\ cls = NoCls
  /\ gm = GmIdle
  /\ response = NoResponse
  /\ call \in {[fn |-> fn, board |-> b, original_color |-> oc, color |-> c] :
                 b \in PlayoutRoots, oc \in Colors, c \in Colors}
  /\ frames = <<Frame(call.board, call.original_color, call.color)>>
  /\ ret = "running"
  /\ NoScored

\* the activation ends: its frame is dropped and its value handed back
Return(value) ==
  /\ frames' = Front(frames)
  /\ ret' = value
  /\ pc' = IF Len(frames) = 1 THEN "returned" ELSE "call"

RandomEntry ==
  /\ pc = "call" /\ call.fn = "random_simulation"
  /\ frames # <<>> /\ Top.at = "entry"

\* return True
RandomSimWon ==
  /\ RandomEntry
  /\ RandomBaseCase(Top.board, Top.original_color)
  /\ Return("True")
  /\ UNCHANGED <<board, POLICY, STACK, cls, gm, response, call, g3vars>>

\* the random move is PASS: return False
RandomSimPass ==
  /\ RandomEntry
  /\ ~RandomBaseCase(Top.board, Top.original_color)
  /\ PASS \in generate_random_move_gomoku(Top.board)
  /\ Return("False")
  /\ UNCHANGED <<board, POLICY, STACK, cls, gm, response, call, g3vars>>

\* mutant: the recursive call is made on a copy taken before the move
RandomSimPlay_BeforeMove(move) ==
  /\ RandomEntry
  /\ ~RandomBaseCase(Top.board, Top.original_color)
  /\ move \in generate_random_move_gomoku(Top.board) /\ move # PASS
  /\ STACK' = Append(STACK, copy(Top.board))
  /\ LET played == play_move_gomoku(Top.board, move, Top.color)
     IN frames' = Append([frames EXCEPT ![Len(frames)].board = played,
                                        ![Len(frames)].at = "called"],
                         Frame(copy(Top.board), Top.original_color,
                               opponent(Top.color)))
  /\ ret' = "running"
  /\ UNCHANGED <<board, POLICY, pc, cls, gm, response, call, g3vars>>

\* push a copy on STACK, play the move and call random_simulation on a copy
RandomSimPlay(move) ==
  /\ RandomEntry
  /\ ~RandomBaseCase(Top.board, Top.original_color)
  /\ move \in generate_random_move_gomoku(Top.board) /\ move # PASS
  /\ STACK' = Append(STACK, copy(Top.board))
  /\ LET played == play_move_gomoku(Top.board, move, Top.color)
     IN frames' = Append([frames EXCEPT ![Len(frames)].board = played,
                                        ![Len(frames)].at = "called"],
                         Frame(copy(played), Top.original_color,
                               opponent(Top.color)))
  /\ ret' = "running"
  /\ UNCHANGED <<board, POLICY, pc, cls, gm, response, call, g3vars>>

\* mutant: the pushed copy is left on STACK
RandomSimReturn_NoPop ==
  /\ pc = "call" /\ call.fn = "random_simulation"
  /\ frames # <<>> /\ Top.at = "called"
  /\ STACK' = STACK
  /\ Return(ret)
  /\ UNCHANGED <<board, POLICY, cls, gm, response, call, g3vars>>

\* the inner call is back: board = STACK.pop(); return status
RandomSimReturn ==
  /\ pc = "call" /\ call.fn = "random_simulation"
  /\ frames # <<>> /\ Top.at = "called"
  /\ STACK' = Front(STACK)
  /\ Return(ret)
  /\ UNCHANGED <<board, POLICY, cls, gm, response, call, g3vars>>

NextRandom ==
  \/ RandomSimWon
  \/ RandomSimPass
  \/ \E move \in 1..MaxSize : RandomSimPlay(move)
  \/ RandomSimReturn

SpecRandom == InitPlayout("random_simulation") /\ [][NextRandom]_vars

(* rules_simulation *)

RulesEntry ==
  /\ pc = "call" /\ call.fn = "rules_simulation"
  /\ frames # <<>> /\ Top.at = "entry"

\* game_end: return 1 or 0
RulesSimEnd ==
  /\ RulesEntry
  /\ check_game_end_gomoku(Top.board).game_end
  /\ Return(RulesBaseValue(check_game_end_gomoku(Top.board).winner,
                           Top.original_color))
  /\ UNCHANGED <<board, POLICY, STACK, cls, gm, response, call, g3vars>>

\* check_block_win returns no move (or PASS as the last one): return 0.5
RulesSimNoMove ==
  /\ RulesEntry
  /\ ~check_game_end_gomoku(Top.board).game_end
  /\ LET r == check_block_win_on(copy(Top.board), Top.color, STACK)
     IN /\ (IF Len(r.moves) = 0 THEN TRUE ELSE Last(r.moves) = PASS)
        /\ STACK' = r.locals.stack
        /\ cls' = r
  /\ Return("0.5")
  /\ UNCHANGED <<board, POLICY, gm, response, call, g3vars>>

\* play the last move of the returned list on the board itself and call
\* rules_simulation on that same board (the caller does not read it again)
RulesSimPlay ==
  /\ RulesEntry
  /\ ~check_game_end_gomoku(Top.board).game_end
  /\ LET r == check_block_win_on(copy(Top.board), Top.color, STACK)
     IN /\ (IF Len(r.moves) = 0 THEN FALSE ELSE Last(r.moves) # PASS)
        /\ STACK' = r.locals.stack
        /\ cls' = r
        /\ LET played == play_move_gomoku(Top.board, Last(r.moves), Top.color)
           IN frames' = Append([frames EXCEPT ![Len(frames)].board = played,
                                              ![Len(frames)].at = "called"],
                               Frame(played, Top.original_color,
                                     opponent(Top.color)))
  /\ ret' = "running"
  /\ UNCHANGED <<board, POLICY, pc, gm, response, call, g3vars>>

\* the inner call is back: return status
RulesSimReturn ==
  /\ pc = "call" /\ call.fn = "rules_simulation"
  /\ frames # <<>> /\ Top.at = "called"
  /\ Return(ret)
  /\ UNCHANGED <<board, POLICY, STACK, cls, gm, response, call, g3vars>>

NextRules ==
  \/ RulesSimEnd
  \/ RulesSimNoMove
  \/ RulesSimPlay
  \/ RulesSimReturn

SpecRules == InitPlayout("rules_simulation") /\ [][NextRules]_vars

(* either playout, run to its end: the interpreter executes a call that has
   been made without interruption, so a step of it that can be taken is
   taken *)

\* the side to move recorded on the board is not read by the playouts, which
\* are given the color to move
PlayoutStarts ==
  {b \in AllBoards(MaxSize) :
     Cardinality(get_empty_points(b)) <= MaxPlies /\ b.current_player = BLACK}

InitPlayouts ==
  /\ board = EmptyBoard(MaxSize)
  /\ POLICY = "random"
  /\ STACK = <<>>
  /\ pc = "start"
  /\ cls = NoCls
  /\ gm = GmIdle
  /\ response = NoResponse
  /\ NoSim /\ NoScored

\* fn(b, original_color, color) is called
CallPlayout(fn, b, original_color, color) ==
  /\ pc = "start"
  /\ call' = [fn |-> fn, board |-> b, original_color |-> original_color,
              color |-> color]
  /\ frames' = <<Frame(b, original_color, color)>>
  /\ ret' = "running"
  /\ pc' = "call"
  /\ UNCHANGED <<board, POLICY, STACK, cls, gm, response, g3vars>>

NextPlayouts ==
  \/ /\ pc = "start"
     /\ \E fn \in {"random_simulation", "rules_simulation"}, b \in PlayoutStarts,
           oc \in Colors, c \in Colors : CallPlayout(fn, b, oc, c)
  \/ NextRandom
  \/ NextRules

SpecPlayouts ==
  InitPlayouts /\ [][NextPlayouts]_vars /\ WF_vars(NextRandom \/ NextRules)

(* any call that uses STACK: check_block_win on a position, or either
   playout *)

\* check_block_win(b, colorArg) is called on the caller's position b
CallClassify(b, colorArg) ==
  /\ pc = "start"
  /\ board' = b
  /\ LET r == check_block_win(b, colorArg, STACK)
     IN /\ cls' = r
        /\ STACK' = r.locals.stack
  /\ pc' = "returned"
  /\ UNCHANGED <<POLICY, gm, response, simvars, g3vars>>

NextCalls ==
  \/ /\ pc = "start"
     /\ \E b \in AllBoards(MaxSize), colorArg \in Colors \cup {NoneVal} :
          CallClassify(b, colorArg)
  \/ NextPlayouts

SpecCalls == InitPlayouts /\ [][NextCalls]_vars

----------------------------------------------------------------------------
(* Gomoku3.simulate on a position with a move history (play, moveNumber,
   undoMove of the board oracle) *)

EmptyState(n) == [cells |-> [p \in 1..n |-> EMPTY], toPlay |-> BLACK, moves |-> <<>>]

\* state.play(move)
StatePlay(st, move) ==
  [cells |-> [st.cells EXCEPT ![move] = st.toPlay],
   toPlay |-> opponent(st.toPlay),
   moves |-> Append(st.moves, move)]

\* state.moveNumber()
moveNumber(st) == Len(st.moves)

StateEmptyPoints(st) == {p \in DOMAIN st.cells : st.cells[p] = EMPTY}

InitScored ==
  /\ board = EmptyBoard(MaxSize)
  /\ POLICY = "random"
  /\ STACK = <<>>
  /\ pc = "idle"
  /\ cls = NoCls
  /\ gm = GmIdle
  /\ response = NoResponse
  /\ NoSim
  /\ state = EmptyState(MaxSize)
  /\ g3 = NoG3

\* the caller plays a move on the shared position
CallerPlays(move) ==
  /\ g3.at = "idle"
  /\ move \in StateEmptyPoints(state)
  /\ state' = StatePlay(state, move)
  /\ UNCHANGED <<gtpvars, STACK, simvars, g3>>

\* simulate(state, move): the move is played and the move number read; the
\* loop header then reads self.numSimulations, which Gomoku3 does not define
\* (the class attribute is numSims), and AttributeError leaves the method
Gomoku3_simulate(move) ==
  /\ g3.at = "idle"
  /\ move \in StateEmptyPoints(state)
  /\ state' = StatePlay(state, move)
  /\ g3' = [at |-> "raised", before |-> state, move |-> move,
            moveNr |-> moveNumber(StatePlay(state, move)),
            stats |-> <<0, 0, 0>>, exc |-> "AttributeError"]
  /\ UNCHANGED <<gtpvars, STACK, simvars>>

NextScored ==
  \/ \E move \in 1..MaxSize : CallerPlays(move)
  \/ \E move \in 1..MaxSize : Gomoku3_simulate(move)

SpecScored == InitScored /\ [][NextScored]_vars

----------------------------------------------------------------------------
(* Claims about check_block_win, checked under SpecClassify *)

Returned == pc = "returned"

\* the moves after which color has five in a row
WinningMoves(b, color) ==
  {m \in get_empty_points(b) : HasFive(play_move_gomoku(b, m, color), color)}

\* a comes before b in Candidate Set order
Before(a, b) == a < b

\* C4: on a non-terminal position with at least one immediately winning move
\* for the evaluated color, check_block_win returns "Win" and the returned
\* list holds every winning move.
C4_WinCollectsAll ==
  (Returned /\ ~check_game_end_gomoku(board).game_end
     /\ WinningMoves(board, cls.color) # {})
  => /\ cls.returnstring = "Win"
     /\ WinningMoves(board, cls.color) \subseteq Range(cls.moves)

\* two winning moves, both returned
C4_Witness ==
  /\ Returned /\ ~check_game_end_gomoku(board).game_end
  /\ Cardinality(WinningMoves(board, cls.color)) >= 2
  /\ cls.returnstring = "Win"
  /\ Len(cls.moves) >= 2

\* C5: sticky flags. A candidate visited after an immediate win is in none of
\* the Block-Win, Open-Four, Block-Open-Four lists; one visited after a
\* block-win candidate is in neither the Open-Four nor the Block-Open-Four
\* list; one visited after an open-four candidate is not in the
\* Block-Open-Four list.
C5_StickyFlags ==
  Returned =>
    \A a, b \in Range(cls.candidates) :
      Before(a, b) =>
        /\ a \in WinningMoves(board, cls.color)
             => b \notin Range(cls.locals.block_win_moves)
                           \cup Range(cls.locals.open_four_moves)
                           \cup Range(cls.locals.block_open_four_moves)
        /\ a \in Range(cls.locals.block_win_moves)
             => b \notin Range(cls.locals.open_four_moves)
                           \cup Range(cls.locals.block_open_four_moves)
        /\ a \in Range(cls.locals.open_four_moves)
             => b \notin Range(cls.locals.block_open_four_moves)

\* b, visited after the winning move a, would raise the open-four count on
\* its own and is not in the Open-Four list
C5_Witness ==
  /\ Returned
  /\ \E a, b \in Range(cls.candidates) :
       /\ Before(a, b)
       /\ a \in WinningMoves(board, cls.color)
       /\ b \notin WinningMoves(board, cls.color)
       /\ check_open_four_gomoku(play_move_gomoku(board, b, cls.color), cls.color)
            > check_open_four_gomoku(board, cls.color)
       /\ b \notin Range(cls.locals.open_four_moves)

\* the category and list of the highest-priority non-empty list
Highest(l, cands) ==
  IF l.win_moves # <<>> THEN <<"Win", l.win_moves>>
  ELSE IF l.block_win_moves # <<>> THEN <<"BlockWin", l.block_win_moves>>
  ELSE IF l.open_four_moves # <<>> THEN <<"OpenFour", l.open_four_moves>>
  ELSE IF l.block_open_four_moves # <<>>
  THEN <<"BlockOpenFour", l.block_open_four_moves>>
  ELSE <<"Random", cands>>

\* C6: check_block_win returns the highest-priority non-empty list under its
\* label; with four empty lists it returns the label of "no category"
\* ("Random") with every legal move in enumeration order, which is the empty
\* list when there is no legal move.
C6_HighestCategory ==
  Returned =>
    /\ <<cls.returnstring, cls.moves>> = Highest(cls.locals, cls.candidates)
    /\ cls.candidates = SortedSeq(get_empty_points(board))
    /\ get_empty_points(board) = {}
         => (cls.returnstring = "Random" /\ cls.moves = <<>>)

\* a lower list is non-empty too and the higher one is returned
C6_Witness ==
  /\ Returned
  /\ cls.returnstring = "Win"
  /\ cls.locals.open_four_moves # <<>>

C6_WitnessNone ==
  /\ Returned
  /\ cls.returnstring = "Random"
  /\ Len(cls.moves) >= 2

\* C9: every move of the Win list is a move after which the evaluated color
\* is the winner.
C9_WinListIsOwnWin ==
  Returned =>
    \A m \in Range(cls.locals.win_moves) :
      check_game_end_gomoku(play_move_gomoku(board, m, cls.color)).winner = cls.color

----------------------------------------------------------------------------
(* Claims about genmove_cmd *)

\* Outcome is not Ongoing: five in a row, or a full board (Draw)
Terminal(b) == check_game_end_gomoku(b).game_end \/ get_empty_points(b) = {}

\* a candidate of the running genmove_cmd has just been evaluated
CandidateDone == pc = "genmove" /\ gm.i > 1
LastCandidate == gm.moves[gm.i - 1]

\* C1: under the random policy the playouts of a candidate start from a copy
\* of the root on which the candidate has been played for the acting color,
\* and the root itself is not changed.
C1_PlayoutStartsAfterCandidate ==
  (CandidateDone /\ POLICY = "random")
  => /\ gm.handed = play_move_gomoku(gm.root, LastCandidate, gm.color)
     /\ board = gm.root

\* C3: the best move is the earliest candidate whose ratio is the highest of
\* the candidates evaluated so far, with that ratio as best ratio; when every
\* ratio is 0 it is the first candidate.
C3_TieBreak ==
  CandidateDone
  => /\ gm.best_move = gm.moves[gm.first]
     /\ gm.best_ratio = gm.maxr
     /\ gm.maxr = 0 => gm.best_move = gm.moves[1]

\* a later candidate has tied with the best one at a positive ratio
C3_Witness ==
  /\ CandidateDone /\ gm.i > Len(gm.moves)
  /\ gm.tied /\ gm.maxr > 0
  /\ gm.first < Len(gm.moves)
  /\ gm.best_move = gm.moves[gm.first]

GenmoveAnswered == pc = "idle" /\ response.cmd = "genmove"

\* C7 as claimed: on a terminal position genmove_cmd runs no playout and no
\* classification, leaves the board unchanged and answers pass when the
\* winner is the requested color and resign otherwise.
C7_TerminalPassOrResign ==
  (GenmoveAnswered /\ Terminal(gm.root))
  => /\ gm.playouts = 0 /\ gm.classified = 0
     /\ board = gm.root
     /\ response.text =
          IF check_game_end_gomoku(gm.root).winner = gm.color
          THEN "pass" ELSE "resign"

\* C7 as amended: with five in a row on the board genmove_cmd runs no playout
\* and no classification, leaves the board unchanged and answers pass when
\* the winner is the requested color and resign otherwise; on a full board
\* without five in a row it runs no playout and no classification either,
\* leaves the board unchanged and answers pass. Gomoku3.genmove raises at
\* its assert statement and produces no move.
C7_TerminalShortCircuit ==
  /\ (GenmoveAnswered /\ Terminal(gm.root))
     => /\ gm.playouts = 0 /\ gm.classified = 0
        /\ board = gm.root
        /\ response.text =
             IF ~check_game_end_gomoku(gm.root).game_end THEN "pass"
             ELSE IF check_game_end_gomoku(gm.root).winner = gm.color
             THEN "pass" ELSE "resign"
  /\ (pc = "idle" /\ response.cmd = "Gomoku3.genmove" /\ Terminal(gm.root))
     => /\ response.text = "AttributeError"
        /\ response.moves = <<>>
        /\ board = gm.root

\* genmove for the loser of a position with five in a row and empty points
C7_Witness ==
  /\ GenmoveAnswered
  /\ check_game_end_gomoku(gm.root).game_end
  /\ get_empty_points(gm.root) # {}
  /\ check_game_end_gomoku(gm.root).winner # gm.color
  /\ response.text = "resign"
  /\ board = gm.root

----------------------------------------------------------------------------
(* Claims about the playouts *)

CallWinner == check_game_end_gomoku(call.board).winner

\* C2: random_simulation called on a terminal position plays no move and
\* returns True exactly when the winner is original_color.
C2_TerminalReturnsAtOnce ==
  (call.fn = "random_simulation" /\ Terminal(call.board))
  => /\ Len(frames) <= 1
     /\ STACK = <<>>
     /\ pc = "returned"
          => ret = IF CallWinner = call.original_color THEN "True" ELSE "False"

Empties(b) == Cardinality(get_empty_points(b))

\* every activation but the outermost was called on a position with fewer
\* empty cells than its caller's, and the activations are at most one more
\* than the empty cells of the starting position
C11_Descent ==
  call.fn # NoneVal
  => /\ \A k \in 1..(Len(frames) - 1) :
          Empties(frames[k + 1].entry) < Empties(frames[k].entry)
     /\ Len(frames) <= Empties(call.board) + 1

\* random_simulation ends with a boolean, rules_simulation with 1, 0 or 0.5
C11_Value ==
  pc = "returned"
  => /\ call.fn = "random_simulation" => ret \in {"True", "False"}
     /\ call.fn = "rules_simulation" => ret \in {"1", "0", "0.5"}

\* C11: both playouts terminate from every position: each recursive call is
\* made on a position with strictly fewer empty cells than its caller's, the
\* recursion depth is at most the number of empty cells of the starting
\* position, every call returns, random_simulation with a boolean and
\* rules_simulation with a value in {0, 0.5, 1}.
C11_PlayoutsTerminate ==
  /\ []C11_Descent
  /\ []C11_Value
  /\ (pc = "call") ~> (pc = "returned" /\ frames = <<>>)

\* a rule-guided playout as deep as the empty cells of its start allow
C11_Witness ==
  /\ call.fn = "rules_simulation"
  /\ Empties(call.board) >= 2
  /\ Len(frames) = Empties(call.board) + 1
  /\ Empties(Top.entry) = 0

----------------------------------------------------------------------------
(* The activation steps and the summaries above agree *)

\* the activations of the running playout that have pushed and not yet popped
Pending == {k \in 1..Len(frames) : frames[k].at = "called"}

\* C12: STACK discipline. Every push of check_block_win and of
\* random_simulation is matched by one pop before the call returns: while
\* random_simulation runs STACK holds exactly one entry for each activation
\* waiting for its inner call, the position that activation was called on;
\* rules_simulation leaves STACK as it is at every step; when
\* check_block_win or a playout has returned STACK is what it was before
\* the call (empty), and the position check_block_win was called on is
\* unchanged.
C12_StackDiscipline ==
  /\ pc = "returned" => STACK = <<>>
  /\ cls # NoCls => cls.locals.stack = <<>>
  /\ (pc = "returned" /\ call.fn = NoneVal) => cls.locals.board = board
  /\ call.fn = "random_simulation"
       => /\ Len(STACK) = Cardinality(Pending)
          /\ \A k \in Pending : k <= Len(STACK) /\ STACK[k] = frames[k].entry
  /\ call.fn = "rules_simulation" => STACK = <<>>

\* the inner calls of a random playout have pushed, popped and returned, and
\* the outermost activation is about to pop its own copy
C12_Witness ==
  /\ call.fn = "random_simulation" /\ pc = "call"
  /\ Empties(call.board) >= 2
  /\ Len(frames) = 1 /\ Top.at = "called"
  /\ ret \in {"True", "False"}
  /\ STACK = <<call.board>>

\* the table of classifier results gives what the call gives, on any STACK
TableAgrees ==
  frames # <<>>
  => check_block_win_on(Top.board, Top.color, STACK)
       = check_block_win(Top.board, Top.color, STACK)

StepsAgree ==
  pc = "returned"
  => /\ call.fn = "random_simulation"
          => ret \in random_simulation(call.board, call.original_color, call.color)
     /\ call.fn = "rules_simulation"
          => ret = rules_simulation(call.board, call.original_color, call.color).status

----------------------------------------------------------------------------
(* Claims about Gomoku3 *)

\* C8: when simulate(state, move) is over, the move count, the stones and
\* the side to move of the shared position are what they were before the
\* call, and the tallies sum to the number of trials.
C8_SimulateRestores ==
  g3.at # "idle"
  => /\ moveNumber(state) = moveNumber(g3.before)
     /\ state = g3.before
     /\ g3.exc = NoneVal

====
